---- MODULE Spec2Model ----
(***************************************************************************)
(* Model of astrbot_plugin_douyin (src/main.py): the Pillow weather-card   *)
(* helpers (_draw_vgradient, _text_w), the two card renderers              *)
(* (_render_weather_now, _render_weather_forecast) and the DouyinPlugin    *)
(* handlers with their whitelist gate.                                     *)
(*                                                                         *)
(* Four specifications share the module's variables:                       *)
(*   SpecGradient   one call of _draw_vgradient, row by row                *)
(*   SpecRender     one call of a card renderer, section by section        *)
(*   SpecHandlers   one chat event through a handler, any configuration    *)
(*   SpecConcurrent two chat events interleaved on one event loop          *)
(***************************************************************************)
EXTENDS Integers, Sequences, FiniteSets, TLC

VARIABLES
    \* ---- _draw_vgradient ----
    bbox,       \* the (x1, y1, x2, y2) argument
    c1, c2,     \* the two RGB colours
    gi,         \* the loop variable i of `for i in range(h)`
    lines,      \* the fill colours of the draw.line calls made so far, in order
    \* ---- card renderers ----
    card,       \* "now" | "forecast" | "none": which renderer is running
    data,       \* the data argument
    rpc,        \* position inside the renderer
    H,          \* height of the canvas allocated by Image.new (0 before that)
    blocks,     \* vertical extents painted so far, in paint order
    draws,      \* right-aligned text draws issued by the latest paint step
    di,         \* forecast: number of day panels painted
    exc,        \* "none", or the exception that ended the call
    file0,      \* the file at save_path before the call
    file,       \* the file at save_path now
    \* ---- plugin handlers ----
    config,     \* self.config
    reqs,       \* the chat events being handled
    ev,         \* per event: handler, unified_msg_origin, group_id, upstream data
    hpc,        \* per event: position inside its handler
    results,    \* per event: the results yielded so far, in order
    http,       \* per event: number of HTTP requests issued
    rendered,   \* per event: number of render calls made
    disk,       \* per output path: which event's card the file holds
    sent,       \* per event: the card the framework read when it sent the image
    loop        \* the event whose synchronous code occupies the event loop, or 0

gradVars == <<bbox, c1, c2, gi, lines>>
renderVars == <<card, data, rpc, H, blocks, draws, di, exc, file0, file>>
handlerVars == <<config, reqs, ev, hpc, results, http, rendered, disk, sent, loop>>
vars == <<gradVars, renderVars, handlerVars>>

Max(a, b) == IF a >= b THEN a ELSE b

Min(a, b) == IF a <= b THEN a ELSE b

(***************************************************************************)
(* Idle values: what a specification leaves of the parts it does not run.  *)
(***************************************************************************)
GradIdle ==
    /\ bbox = <<0, 0, 0, 0>>
    /\ c1 = <<0, 0, 0>>
    /\ c2 = <<0, 0, 0>>
    /\ gi = 0
    /\ lines = <<>>

RenderIdle ==
    /\ card = "none"
    /\ data = [keys |-> {}]
    /\ rpc = "idle"
    /\ H = 0
    /\ blocks = <<>>
    /\ draws = <<>>
    /\ di = 0
    /\ exc = "none"
    /\ file0 = [kind |-> "absent"]
    /\ file = [kind |-> "absent"]

HandlerIdle ==
    /\ config = <<>>
    /\ reqs = {}
    /\ ev = <<>>
    /\ hpc = <<>>
    /\ results = <<>>
    /\ http = <<>>
    /\ rendered = <<>>
    /\ disk = <<>>
    /\ sent = <<>>
    /\ loop = 0

(***************************************************************************)
(* _draw_vgradient                                                         *)
(***************************************************************************)
CX == 20
CW == 360
GRAD_H_NOW == 190
GRAD_H_FORECAST == 130

\* Largest region height tried besides the two the renderers use.
MaxGradH == 12

\* The gradient colours of the two cards, and colours at the channel limits.
Colors ==
    { <<79, 172, 254>>, <<30, 144, 255>>, <<102, 126, 234>>, <<118, 75, 162>>,
      <<0, 0, 0>>, <<255, 255, 255>>, <<1, 254, 128>>, <<255, 0, 127>> }

GradHeights == (0..MaxGradH) \cup {GRAD_H_NOW, GRAD_H_FORECAST}

\* Python's // : floor division (the divisor here is always >= 1).
FloorDiv(a, b) == a \div b

ChannelOffByOne(a, b, i, h) == a + FloorDiv((b - a) * i, Max(h, 1))

\* c1[k] + (c2[k] - c1[k]) * i // max(h - 1, 1)
Channel(a, b, i, h) == a + FloorDiv((b - a) * i, Max(h - 1, 1))

GradH == bbox[4] - bbox[2]

GradInit ==
    /\ \E h \in GradHeights : bbox = <<0, 0, CW, h>>
    /\ c1 \in Colors
    /\ c2 \in Colors
    /\ gi = 0
    /\ lines = <<>>

\* One iteration of `for i in range(h)`.
draw_vgradient ==
    /\ gi < GradH
    /\ lines' = Append(lines,
                       [y |-> bbox[2] + gi,
                        fill |-> [k \in 1..3 |-> Channel(c1[k], c2[k], gi, GradH)]])
    /\ gi' = gi + 1
    /\ UNCHANGED <<bbox, c1, c2, renderVars, handlerVars>>

InitGradient == GradInit /\ RenderIdle /\ HandlerIdle

NextGradient == draw_vgradient

SpecGradient == InitGradient /\ [][NextGradient]_vars

Between(x, a, b) == Min(a, b) <= x /\ x <= Max(a, b)

\* C6: in _draw_vgradient, for every region height h >= 1 and every channel,
\* row 0 has exactly c1, the last row h-1 (h >= 2) has exactly c2, every row
\* value lies between c1 and c2, the rows are monotone in the direction of
\* c1 -> c2, and a 1-row region is painted with c1 (no division by zero).
GradientMonotoneBoundaryCorrect ==
    \A k \in 1..3 :
        /\ \A j \in 1..Len(lines) :
               /\ lines[j].y = bbox[2] + j - 1
               /\ Between(lines[j].fill[k], c1[k], c2[k])
               /\ j = 1 => lines[j].fill[k] = c1[k]
               /\ (j = GradH /\ GradH >= 2) => lines[j].fill[k] = c2[k]
               /\ j > 1 =>
                      /\ c1[k] <= c2[k] => lines[j - 1].fill[k] <= lines[j].fill[k]
                      /\ c1[k] >= c2[k] => lines[j - 1].fill[k] >= lines[j].fill[k]
        /\ (GradH = 1 /\ gi = 1) => (Len(lines) = 1 /\ lines[1].fill[k] = c1[k])

\* A whole gradient of the now-card's height painted between two different
\* colours, with a falling and a rising channel.
GradientPainted ==
    /\ GradH = GRAD_H_NOW
    /\ Len(lines) = GradH
    /\ c1[1] > c2[1]
    /\ c1[3] < c2[3]

(***************************************************************************)
(* Card renderers: shared layout constants and text measurement            *)
(***************************************************************************)
DX == CX + 16
DW == CW - 32
ROW_H == 46
DPAD == 20
DH == DPAD + 4 * ROW_H + DPAD - 6
CARD_H == 80
GAP == 10
card_y == 20

\* Widest measured text tried: wider than either panel's interior.
MaxTextW == 300

\* _text_w returns the width of the text's bounding box in the chosen font;
\* the font's metrics are not the program's, so a measured width is any of
\* these: a typical value, a very long value.
TextWidths == {120, MaxTextW}

\* A right-aligned draw.text: x = right - w, next to the inset `left`.
RightAligned(kind, right, w, left) ==
    [kind |-> kind, x |-> right - w, w |-> w, left |-> left, right |-> right]

\* A painted vertical extent: top and bottom are the coordinates handed to
\* Pillow, last is the last pixel row painted (rounded_rectangle paints its
\* bottom coordinate too, a pasted image or a text line does not).
Block(kind, top, height, inclusive, parent) ==
    [kind |-> kind, top |-> top, bottom |-> top + height,
     last |-> IF inclusive THEN top + height ELSE top + height - 1,
     parent |-> parent]

\* What the file at save_path holds: nothing, an earlier image, a truncated
\* write, or the card saved from a canvas.
NoFile == [kind |-> "absent", card |-> "none", H |-> 0, blocks |-> <<>>]

OldFile == [kind |-> "old", card |-> "none", H |-> 0, blocks |-> <<>>]

TruncatedFile == [kind |-> "truncated", card |-> "none", H |-> 0, blocks |-> <<>>]

CardFile(c, h, b) == [kind |-> "card", card |-> c, H |-> h, blocks |-> b]

\* The exceptions a renderer can end with.
Raise(e) ==
    /\ exc' = e
    /\ UNCHANGED <<card, data, rpc, H, di, file0, file>>

(***************************************************************************)
(* _render_weather_now                                                     *)
(***************************************************************************)
\* Largest number of alarm entries tried.
MaxAlarms == 5

NowHeaderKeys == {"path", "temperature", "feelst"}

NowRowKeys ==
    {"humidity", "wind_direction", "wind_speed", "wind_scale",
     "precipitation", "pressure"}

NowKeys == NowHeaderKeys \cup NowRowKeys \cup {"last_update"}

\* An alarm entry is a string, a record with .get, or something else
\* (a number, None) on which alarm.get raises AttributeError.
AlarmLists ==
    UNION { { [j \in 1..n |-> IF j = p THEN "other" ELSE k] :
                p \in 0..n, k \in {"str", "dict"} } : n \in 0..MaxAlarms }

NowData ==
    { [keys |-> (NowKeys \ m) \cup {"alarms"}, alarms |-> a] :
          m \in {{}} \cup {{k} : k \in NowKeys}, a \in AlarmLists }
    \cup { [keys |-> NowKeys \ m, alarms |-> <<>>] :
          m \in {{}} \cup {{k} : k \in NowKeys} }

\* alarms = data.get("alarms", [])
alarms == IF "alarms" \in data.keys THEN data.alarms ELSE <<>>

AlarmHNoHeader(n) == IF n > 0 THEN 14 + n * 20 + 14 ELSE 0

\* alarm_h = (14 + 20 + len(alarms) * 20 + 14) if alarms else 0
alarm_h(n) == IF n > 0 THEN 14 + 20 + n * 20 + 14 ELSE 0

detail_y == GRAD_H_NOW

AlarmYNoGap == detail_y + DH

\* alarm_y = detail_y + DH + 12
alarm_y == detail_y + DH + 12

\* footer_y = (alarm_y + alarm_h if alarms else detail_y + DH) + 16
footer_y_now(n) == (IF n > 0 THEN alarm_y + alarm_h(n) ELSE detail_y + DH) + 16

\* card_h = footer_y + 20 + 24 ; H = 20 + card_h + 20
H_now(n) == 20 + (footer_y_now(n) + 20 + 24) + 20

RenderInitNow ==
    /\ card = "now"
    /\ data \in NowData
    /\ rpc = "layout"
    /\ H = 0
    /\ blocks = <<>>
    /\ draws = <<>>
    /\ di = 0
    /\ exc = "none"
    /\ file0 \in {NoFile, OldFile}
    /\ file = file0

\* A renderer's step leaves the rest of the program alone.
RenderStep == UNCHANGED <<gradVars, handlerVars>>

Running(c, at) == card = c /\ rpc = at /\ exc = "none"

\* lines 68-79: the layout arithmetic and Image.new("RGB", (W, H), BG)
NowLayout ==
    /\ Running("now", "layout")
    /\ RenderStep
    /\ H' = H_now(Len(alarms))
    /\ rpc' = "header"
    /\ UNCHANGED <<card, data, blocks, draws, di, exc, file0, file>>

\* lines 81-95: the gradient band is pasted, then the three header texts
NowHeader ==
    /\ Running("now", "header")
    /\ RenderStep
    /\ blocks' = Append(blocks, Block("header", card_y, GRAD_H_NOW, FALSE, "card"))
    /\ draws' = <<>>
    /\ \/ /\ NowHeaderKeys \subseteq data.keys
          /\ rpc' = "rows"
          /\ UNCHANGED <<card, data, H, di, exc, file0, file>>
       \/ /\ ~(NowHeaderKeys \subseteq data.keys)
          /\ Raise("KeyError")

\* ry = dy + DPAD, then ry += ROW_H after each row
RowTop(dy, i) == dy + DPAD + i * ROW_H

\* lines 97-122: the detail panel; the rows list reads its six keys before
\* any row is drawn
NowRows ==
    /\ Running("now", "rows")
    /\ RenderStep
    /\ LET dy == card_y + detail_y
           panel == Block("detail", dy, DH, TRUE, "card")
       IN \/ /\ NowRowKeys \subseteq data.keys
             /\ \E vw \in [1..4 -> TextWidths] :
                   /\ draws' = [i \in 1..4 |->
                                  RightAligned("value", DX + DW - 24, vw[i], DX + 24)]
                   /\ blocks' = blocks \o <<panel>> \o
                                [i \in 1..4 |->
                                   Block("row", RowTop(dy, i - 1), ROW_H, FALSE, "detail")]
             /\ rpc' = "alarms"
             /\ UNCHANGED <<card, data, H, di, exc, file0, file>>
          \/ /\ ~(NowRowKeys \subseteq data.keys)
             /\ blocks' = Append(blocks, panel)
             /\ draws' = <<>>
             /\ Raise("KeyError")

\* The alarm entries drawn before the first one that has no .get
DrawableAlarms ==
    LET bad == {j \in 1..Len(alarms) : alarms[j] = "other"}
    IN IF bad = {} THEN Len(alarms)
       ELSE (CHOOSE j \in bad : \A k \in bad : j <= k) - 1

\* lines 124-135: the alarm panel, only `if alarms`
NowAlarms ==
    /\ Running("now", "alarms")
    /\ RenderStep
    /\ draws' = <<>>
    /\ LET n == Len(alarms)
           ay == card_y + alarm_y
           panel == Block("alarm", ay, alarm_h(n), TRUE, "card")
           line(j) == Block("alarmline", ay + 38 + (j - 1) * 20, 20, FALSE, "alarm")
       IN \/ /\ n = 0
             /\ rpc' = "footer"
             /\ UNCHANGED <<card, data, H, blocks, di, exc, file0, file>>
          \/ /\ n > 0
             /\ DrawableAlarms = n
             /\ blocks' = blocks \o <<panel>> \o [j \in 1..n |-> line(j)]
             /\ rpc' = "footer"
             /\ UNCHANGED <<card, data, H, di, exc, file0, file>>
          \/ /\ n > 0
             /\ DrawableAlarms < n
             /\ blocks' = blocks \o <<panel>> \o [j \in 1..DrawableAlarms |-> line(j)]
             /\ Raise("AttributeError")

\* lines 137-146: the footer line, centred at card_y + footer_y in f11
NowFooter ==
    /\ Running("now", "footer")
    /\ RenderStep
    /\ draws' = <<>>
    /\ \/ /\ "last_update" \in data.keys
          /\ blocks' = Append(blocks,
                 Block("footer", card_y + footer_y_now(Len(alarms)), 11, FALSE, "card"))
          /\ rpc' = "save"
          /\ UNCHANGED <<card, data, H, di, exc, file0, file>>
       \/ /\ "last_update" \notin data.keys
          /\ UNCHANGED blocks
          /\ Raise("KeyError")

SaveBeforeFooter(at) == at \in {"footer", "save"}

\* Whether img.save may run at this position: it is the renderers' last
\* statement (lines 148, 248).
SaveAt(at) == at = "save"

\* img.save(save_path, "PNG"): the card replaces the file, or the write
\* fails (OSError) and leaves the old file or a truncated one.
Save ==
    /\ card \in {"now", "forecast"}
    /\ RenderStep
    /\ exc = "none"
    /\ SaveAt(rpc)
    /\ \/ /\ file' = CardFile(card, H, blocks)
          /\ rpc' = "done"
          /\ UNCHANGED <<card, data, H, blocks, draws, di, exc, file0>>
       \/ /\ file' \in {file, TruncatedFile}
          /\ exc' = "OSError"
          /\ UNCHANGED <<card, data, rpc, H, blocks, draws, di, file0>>

(***************************************************************************)
(* _render_weather_forecast                                                *)
(***************************************************************************)
\* Largest number of daily entries tried (the upstream API sends 7).
MaxDays == 7

FcKeys == {"path", "daily", "last_update"}

DayKeys ==
    {"date_short", "weekday", "high", "low", "day_text", "day_wind_dir",
     "day_wind_scale", "night_text", "night_wind_dir", "night_wind_scale"}

\* Daily lists of every length, complete or with one entry lacking one key.
DailyLists ==
    UNION { { [j \in 1..d |-> [keys |-> IF j = p THEN DayKeys \ m ELSE DayKeys]] :
                p \in 1..d, m \in {{}} \cup {{k} : k \in DayKeys} }
            \cup { [j \in 1..d |-> [keys |-> DayKeys]] } : d \in 0..MaxDays }

FcData ==
    { [keys |-> FcKeys \ m, daily |-> dl] :
          m \in {{}} \cup {{k} : k \in FcKeys}, dl \in DailyLists }

DailyHGapAfterEach(d) == d * CARD_H + d * GAP

\* daily_h = len(daily) * CARD_H + max(len(daily) - 1, 0) * GAP
daily_h(d) == d * CARD_H + Max(d - 1, 0) * GAP

daily_y == GRAD_H_FORECAST

\* footer_y = daily_y + daily_h + 16
footer_y_fc(d) == daily_y + daily_h(d) + 16

\* total_h = footer_y + 20 + 24 ; H = 20 + total_h + 20
H_fc(d) == 20 + (footer_y_fc(d) + 20 + 24) + 20

RenderInitForecast ==
    /\ card = "forecast"
    /\ data \in FcData
    /\ rpc = "layout"
    /\ H = 0
    /\ blocks = <<>>
    /\ draws = <<>>
    /\ di = 0
    /\ exc = "none"
    /\ file0 \in {NoFile, OldFile}
    /\ file = file0

\* lines 160-170: daily = data["daily"], the layout arithmetic, Image.new
FcLayout ==
    /\ Running("forecast", "layout")
    /\ RenderStep
    /\ \/ /\ "daily" \in data.keys
          /\ H' = H_fc(Len(data.daily))
          /\ rpc' = "header"
          /\ UNCHANGED <<card, data, blocks, draws, di, exc, file0, file>>
       \/ /\ "daily" \notin data.keys
          /\ UNCHANGED <<blocks, draws>>
          /\ Raise("KeyError")

\* lines 172-185: the gradient band is pasted, then the two header texts
FcHeader ==
    /\ Running("forecast", "header")
    /\ RenderStep
    /\ blocks' = Append(blocks, Block("header", card_y, GRAD_H_FORECAST, FALSE, "card"))
    /\ draws' = <<>>
    /\ \/ /\ "path" \in data.keys
          /\ rpc' = "days"
          /\ UNCHANGED <<card, data, H, di, exc, file0, file>>
       \/ /\ "path" \notin data.keys
          /\ Raise("KeyError")

\* cy = dy + i * (CARD_H + GAP), with dy = card_y + daily_y
DayTop(i) == card_y + daily_y + i * (CARD_H + GAP)

\* lines 194-235: one iteration of `for i, day in enumerate(daily)`
FcDay ==
    /\ Running("forecast", "days")
    /\ RenderStep
    /\ di < Len(data.daily)
    /\ LET cy == DayTop(di)
           day == data.daily[di + 1]
           right == DX + DW - 18
       IN /\ blocks' = Append(blocks, Block("day", cy, CARD_H, TRUE, "card"))
          /\ \/ /\ day.keys = DayKeys
                /\ \E hw \in TextWidths, sw \in TextWidths,
                      lw \in TextWidths, nw \in TextWidths :
                      LET tw == hw + sw + lw
                          tx == right - tw
                      IN draws' =
                           << [kind |-> "high", x |-> tx, w |-> hw,
                               left |-> DX + 18, right |-> right],
                              [kind |-> "sep", x |-> tx + hw, w |-> sw,
                               left |-> DX + 18, right |-> right],
                              [kind |-> "low", x |-> tx + hw + sw, w |-> lw,
                               left |-> DX + 18, right |-> right],
                              RightAligned("night", right, nw, DX + 18) >>
                /\ di' = di + 1
                /\ UNCHANGED <<card, data, rpc, H, exc, file0, file>>
             \/ /\ day.keys # DayKeys
                /\ draws' = <<>>
                /\ exc' = "KeyError"
                /\ UNCHANGED <<card, data, rpc, H, di, file0, file>>

\* the loop is exhausted
FcDaysDone ==
    /\ Running("forecast", "days")
    /\ RenderStep
    /\ di = Len(data.daily)
    /\ rpc' = "footer"
    /\ UNCHANGED <<card, data, H, blocks, draws, di, exc, file0, file>>

\* lines 237-246: the footer line, centred at card_y + footer_y in f11
FcFooter ==
    /\ Running("forecast", "footer")
    /\ RenderStep
    /\ draws' = <<>>
    /\ \/ /\ "last_update" \in data.keys
          /\ blocks' = Append(blocks,
                 Block("footer", card_y + footer_y_fc(Len(data.daily)), 11, FALSE, "card"))
          /\ rpc' = "save"
          /\ UNCHANGED <<card, data, H, di, exc, file0, file>>
       \/ /\ "last_update" \notin data.keys
          /\ UNCHANGED blocks
          /\ Raise("KeyError")

InitRender == GradIdle /\ (RenderInitNow \/ RenderInitForecast) /\ HandlerIdle

NextRender ==
    \/ NowLayout
    \/ NowHeader
    \/ NowRows
    \/ NowAlarms
    \/ NowFooter
    \/ FcLayout
    \/ FcHeader
    \/ FcDay
    \/ FcDaysDone
    \/ FcFooter
    \/ Save

SpecRender == InitRender /\ [][NextRender]_vars

(***************************************************************************)
(* Properties of the card renderers (checked under SpecRender)             *)
(***************************************************************************)
BlocksOf(kind) == {k \in 1..Len(blocks) : blocks[k].kind = kind}

TopLevel == {k \in 1..Len(blocks) : blocks[k].parent = "card"}

LaidOut == rpc # "layout" /\ H > 0

\* C1 as stated: the canvas grows by exactly the height of the alarm panel
\* that is painted (34 + 20*n + padding, the same padding in both).
NowHeightIsBasePlusPaintedPanel ==
    (card = "now" /\ LaidOut) =>
        /\ Len(alarms) = 0 => H = 508
        /\ \A k \in BlocksOf("alarm") :
               H = 508 + (blocks[k].bottom - blocks[k].top)

\* C1 as amended: the canvas height of the now-card depends only on the
\* alarm count n; it is 508 for n = 0 and 508 + 12 + (34 + 20*n + 14) for
\* n > 0, where 34 + 20*n + 14 is the height of the painted alarm panel and
\* 12 is the gap between the detail panel and the alarm panel; so it is
\* non-decreasing in n and strictly increasing for n >= 1.
NowHeightIsBasePlusGapPlusPanel ==
    (card = "now" /\ LaidOut) =>
        LET n == Len(alarms)
        IN /\ H = 508 + (IF n > 0 THEN 12 + (34 + 20 * n + 14) ELSE 0)
           /\ \A k \in BlocksOf("alarm") :
                  blocks[k].bottom - blocks[k].top = 34 + 20 * n + 14
           /\ n = 0 => BlocksOf("alarm") = {}
           /\ (n > 0 /\ rpc \in {"footer", "save", "done"}) =>
                  Cardinality(BlocksOf("alarm")) = 1

\* A now-card with five alarms whose alarm panel has been painted.
NowFiveAlarmsPainted ==
    /\ card = "now"
    /\ Len(alarms) = 5
    /\ rpc = "done"
    /\ BlocksOf("alarm") # {}

PaintingComplete == rpc \in {"save", "done"} /\ BlocksOf("footer") # {}

RightAlignedNeverLeftOfInset ==
    \A k \in 1..Len(draws) :
        draws[k].kind \in {"value", "high", "night"} =>
            draws[k].x >= draws[k].left

\* C8: the forecast canvas height depends only on the number of daily
\* entries d: 40 (margins) + 130 (header) + d*80 + max(d-1,0)*10 + 60
\* (footer), 850 for d = 7, whatever the text widths; consecutive day panels
\* are 80px high and 10px apart, and no gap follows the last one (the footer
\* line is 16px below it).
ForecastHeightByDayCount ==
    (card = "forecast" /\ LaidOut) =>
        LET d == Len(data.daily)
        IN /\ H = 40 + 130 + (d * 80 + (IF d > 1 THEN d - 1 ELSE 0) * 10) + 60
           /\ d = 7 => H = 850
           /\ \A k \in BlocksOf("day") :
                  /\ blocks[k].bottom - blocks[k].top = 80
                  /\ (k + 1) \in BlocksOf("day") =>
                         blocks[k + 1].top - blocks[k].bottom = 10
           /\ \A f \in BlocksOf("footer") :
                  /\ Cardinality(BlocksOf("day")) = d
                  /\ d > 0 => blocks[f].top = blocks[f - 1].bottom + 16

\* A seven-day forecast rendered to the end.
SevenDayForecastRendered ==
    /\ card = "forecast"
    /\ Len(data.daily) = 7
    /\ rpc = "done"
    /\ H = 850

Parent(k) ==
    LET cand == {p \in 1..(k - 1) : blocks[p].kind = blocks[k].parent}
    IN CHOOSE p \in cand : \A q \in cand : q <= p

\* C9: the painted blocks -- header band, detail panel with its 4 rows of
\* 46px or the day panels of 80px, the alarm panel (only when n > 0) with
\* alarm line j at alarmTop + 38 + 20*j, and the footer line -- are painted
\* top to bottom, do not overlap, lie inside the canvas [0, H), keep every
\* row and alarm line inside its own panel, and put the footer line exactly
\* 16px below the bottom of the preceding section.
VerticalStacking ==
    (card \in {"now", "forecast"} /\ LaidOut) =>
        /\ \A k \in 1..Len(blocks) :
               /\ 0 <= blocks[k].top
               /\ blocks[k].top < blocks[k].bottom
               /\ blocks[k].last < H
        /\ \A k \in TopLevel : \A m \in TopLevel :
               k < m => blocks[k].last < blocks[m].top
        /\ \A k \in 1..Len(blocks) :
               blocks[k].parent # "card" =>
                   /\ \E p \in 1..(k - 1) : blocks[p].kind = blocks[k].parent
                   /\ blocks[Parent(k)].top <= blocks[k].top
                   /\ blocks[k].bottom <= blocks[Parent(k)].bottom
                   /\ \A m \in 1..(k - 1) :
                          blocks[m].parent = blocks[k].parent =>
                              blocks[m].last < blocks[k].top
        /\ \A k \in BlocksOf("row") : blocks[k].bottom - blocks[k].top = 46
        /\ \A k \in BlocksOf("day") : blocks[k].bottom - blocks[k].top = 80
        /\ \A k \in BlocksOf("alarmline") :
               blocks[k].top = blocks[Parent(k)].top + 38 + 20 * (k - Parent(k) - 1)
        /\ \A f \in BlocksOf("footer") :
               /\ blocks[f].top =
                      blocks[CHOOSE p \in TopLevel :
                                 p < f /\ \A q \in TopLevel : q < f => q <= p].bottom + 16
               /\ Cardinality(BlocksOf("header")) = 1
               /\ card = "now" =>
                      /\ Cardinality(BlocksOf("detail")) = 1
                      /\ Cardinality(BlocksOf("row")) = 4
                      /\ Cardinality(BlocksOf("alarm")) = Min(Len(alarms), 1)
                      /\ Cardinality(BlocksOf("alarmline")) = Len(alarms)
               /\ card = "forecast" =>
                      Cardinality(BlocksOf("day")) = Len(data.daily)

\* A now-card with two alarms painted to the footer: the two alarm lines are
\* at alarmTop + 38 and alarmTop + 58.
TwoAlarmCardStacked ==
    /\ card = "now"
    /\ Len(alarms) = 2
    /\ rpc = "done"
    /\ \E a \in BlocksOf("alarm") :
           /\ blocks[a + 1].top = blocks[a].top + 38
           /\ blocks[a + 2].top = blocks[a].top + 58

(***************************************************************************)
(* DouyinPlugin: configuration, chat events, the whitelist gate            *)
(***************************************************************************)
Prefixes == {"", "weather_"}

UMOs == {"umo1", "umo2"}

\* No group: event.message_obj.group_id is empty (a private chat).
NoGroup == [t |-> "none", v |-> 0]

\* A group id as a string or as a number; str() of either is its digits.
GroupStr(v) == [t |-> "str", v |-> v]

GroupInt(v) == [t |-> "int", v |-> v]

str(g) == g.v

\* The settings one prefix selects, config.get's defaults among them.
PrefixConfigs ==
    [enable_id_whitelist : BOOLEAN,
     id_whitelist : {{}, {"umo1"}},
     whitelist_reply : {"", "no access"},
     group_whitelist : {{}, {GroupInt(1)}},
     enable_in_private : BOOLEAN]

Configs == [Prefixes -> PrefixConfigs]

DefaultConfig ==
    [enable_id_whitelist |-> FALSE, id_whitelist |-> {}, whitelist_reply |-> "",
     group_whitelist |-> {}, enable_in_private |-> TRUE]

Handlers == {"on_message", "weather_help", "query_weather_now", "query_weather_forecast"}

WeatherQueries == {"query_weather_now", "query_weather_forecast"}

\* has_link: DOUYIN_URL_PATTERN.search(event.message_str) finds a link.
Events ==
    [handler : Handlers, umo : UMOs,
     group_id : {NoGroup, GroupStr(1), GroupStr(2)}, has_link : BOOLEAN]

\* on_message checks with prefix "", the three weather commands with "weather_".
PrefixOf(h) == IF h = "on_message" THEN "" ELSE "weather_"

\* The results a handler yields.
Plain(text) == [kind |-> "plain", text |-> text]

Chain(what) == [kind |-> "chain", text |-> what]

ImageResult(path) == [kind |-> "image", text |-> path]

Pass == [verdict |-> "pass", text |-> ""]

Blocked == [verdict |-> "BLOCKED", text |-> ""]

Reply(text) == [verdict |-> "reply", text |-> text]

CheckWhitelistIdListedPasses(e, prefix) ==
    LET cfg == config[prefix]
    IN IF cfg.enable_id_whitelist /\ cfg.id_whitelist # {}
       THEN IF e.umo \notin cfg.id_whitelist
            THEN IF cfg.whitelist_reply # "" THEN Reply(cfg.whitelist_reply) ELSE Blocked
            ELSE Pass
       ELSE IF e.group_id # NoGroup
            THEN IF cfg.group_whitelist # {}
                    /\ str(e.group_id) \notin {str(g) : g \in cfg.group_whitelist}
                 THEN Blocked ELSE Pass
            ELSE IF ~cfg.enable_in_private THEN Blocked ELSE Pass

\* _check_whitelist: None (Pass), "BLOCKED", or the reply to yield
check_whitelist(e, prefix) ==
    LET cfg == config[prefix]
    IN IF /\ cfg.enable_id_whitelist
          /\ cfg.id_whitelist # {}
          /\ e.umo \notin cfg.id_whitelist
       THEN IF cfg.whitelist_reply # "" THEN Reply(cfg.whitelist_reply) ELSE Blocked
       ELSE IF e.group_id # NoGroup
            THEN IF cfg.group_whitelist # {}
                    /\ str(e.group_id) \notin {str(g) : g \in cfg.group_whitelist}
                 THEN Blocked ELSE Pass
            ELSE IF ~cfg.enable_in_private THEN Blocked ELSE Pass

\* The card files: self._data_dir / "weather_now.png", "weather_forecast.png"
PathOf(h) == IF h = "query_weather_now" THEN "weather_now.png" ELSE "weather_forecast.png"

Paths == {"weather_now.png", "weather_forecast.png"}

NoCard == [by |-> 0, whole |-> FALSE]

CardBy(r) == [by |-> r, whole |-> TRUE]

TruncatedBy(r) == [by |-> r, whole |-> FALSE]

InitHandlersWith(ids, cfgs) ==
    /\ config \in cfgs
    /\ reqs = ids
    /\ ev \in [ids -> Events]
    /\ hpc = [r \in ids |-> "start"]
    /\ results = [r \in ids |-> <<>>]
    /\ http = [r \in ids |-> 0]
    /\ rendered = [r \in ids |-> 0]
    /\ disk = [p \in Paths |-> NoCard]
    /\ sent = [r \in ids |-> NoCard]
    /\ loop = 0

\* A handler's step leaves the renderer-level and gradient-level state alone.
HandlerStep == UNCHANGED <<gradVars, renderVars, config, reqs, ev>>

\* The event loop resumes a coroutine only when no synchronous code runs.
Resumable(r, h, at) ==
    /\ r \in reqs
    /\ ev[r].handler \in h
    /\ hpc[r] = at
    /\ loop = 0

Yield(r, rs) == results' = [results EXCEPT ![r] = @ \o rs]

Goto(r, at) == hpc' = [hpc EXCEPT ![r] = at]

Request(r) == http' = [http EXCEPT ![r] = @ + 1]

\* The gate every handler opens with:
\*   denied = self._check_whitelist(event, prefix)
\*   if denied is not None: if denied != "BLOCKED": yield denied; return
Denied(r) ==
    /\ Resumable(r, Handlers, "start")
    /\ HandlerStep
    /\ LET denied == check_whitelist(ev[r], PrefixOf(ev[r].handler))
       IN /\ denied # Pass
          /\ Yield(r, IF denied # Blocked THEN <<Plain(denied.text)>> ELSE <<>>)
    /\ Goto(r, "done")
    /\ UNCHANGED <<http, rendered, disk, sent, loop>>

Admitted(r, h) ==
    /\ Resumable(r, h, "start")
    /\ check_whitelist(ev[r], PrefixOf(ev[r].handler)) = Pass

(***************************************************************************)
(* DouyinPlugin.on_message                                                 *)
(***************************************************************************)
\* Largest number of images of an image set tried.
MaxImages == 2

\* lines 302-313: no link, return; else the parse API is requested
on_message_start(r) ==
    /\ Admitted(r, {"on_message"})
    /\ HandlerStep
    /\ \/ /\ ~ev[r].has_link
          /\ Goto(r, "done")
          /\ UNCHANGED http
       \/ /\ ev[r].has_link
          /\ Request(r)
          /\ Goto(r, "parse_wait")
    /\ UNCHANGED <<results, rendered, disk, sent, loop>>

\* lines 313-342: the parse API answered (or the request raised)
on_message_parsed(r) ==
    /\ Resumable(r, {"on_message"}, "parse_wait")
    /\ HandlerStep
    /\ \/ Yield(r, <<Plain("parse failed: exception")>>)
       \/ Yield(r, <<Plain("parse failed: msg")>>)
       \/ Yield(r, <<Plain("author and title"), Chain("video")>>)
       \/ \E k \in 1..MaxImages :
              Yield(r, <<Plain("author and title")>> \o [j \in 1..k |-> Chain("image")])
       \/ Yield(r, <<Plain("unsupported content type")>>)
    /\ Goto(r, "done")
    /\ UNCHANGED <<http, rendered, disk, sent, loop>>

(***************************************************************************)
(* DouyinPlugin.weather_help                                               *)
(***************************************************************************)
weather_help(r) ==
    /\ Admitted(r, {"weather_help"})
    /\ HandlerStep
    /\ Yield(r, <<Plain("help")>>)
    /\ Goto(r, "done")
    /\ UNCHANGED <<http, rendered, disk, sent, loop>>

(***************************************************************************)
(* DouyinPlugin.query_weather_now and query_weather_forecast               *)
(***************************************************************************)
\* lines 400-402, 449-451: _search_station requests the autocomplete API
query_start(r) ==
    /\ Admitted(r, WeatherQueries)
    /\ HandlerStep
    /\ Request(r)
    /\ Goto(r, "search_wait")
    /\ UNCHANGED <<results, rendered, disk, sent, loop>>

\* lines 402-408, 451-457: the station search answered (or raised, which
\* `except Exception` catches); a station found, the weather API is requested
query_searched(r) ==
    /\ Resumable(r, WeatherQueries, "search_wait")
    /\ HandlerStep
    /\ \/ /\ Yield(r, <<Plain("query failed: exception")>>)
          /\ Goto(r, "done")
          /\ UNCHANGED http
       \/ /\ Yield(r, <<Plain("city not found")>>)
          /\ Goto(r, "done")
          /\ UNCHANGED http
       \/ /\ Request(r)
          /\ Goto(r, "data_wait")
          /\ UNCHANGED results
    /\ UNCHANGED <<rendered, disk, sent, loop>>

\* lines 408-437, 457-496: the weather API answered (or raised). With code 0
\* the record is unpacked outside any try: a missing field (data, now,
\* location.path, a day's date, ...) raises out of the handler. A complete
\* record leads into the render call, made in the coroutine itself.
query_fetched(r) ==
    /\ Resumable(r, WeatherQueries, "data_wait")
    /\ HandlerStep
    /\ \/ /\ Yield(r, <<Plain("query failed: exception")>>)
          /\ Goto(r, "done")
          /\ UNCHANGED <<rendered, loop>>
       \/ /\ Yield(r, <<Plain("no weather data")>>)
          /\ Goto(r, "done")
          /\ UNCHANGED <<rendered, loop>>
       \/ /\ Goto(r, "raised")
          /\ UNCHANGED <<results, rendered, loop>>
       \/ /\ rendered' = [rendered EXCEPT ![r] = @ + 1]
          /\ loop' = r
          /\ Goto(r, "rendering")
          /\ UNCHANGED results
    /\ UNCHANGED <<http, disk, sent>>

\* lines 437-438, 496-497: the render call returns and the image result is
\* yielded with no await in between, or the render call raises (an alarm
\* entry without .get, a failed file write) out of the handler.
render_returns(r) ==
    /\ r \in reqs
    /\ hpc[r] = "rendering"
    /\ loop = r
    /\ HandlerStep
    /\ LET path == PathOf(ev[r].handler)
       IN \/ /\ disk' = [disk EXCEPT ![path] = CardBy(r)]
             /\ Yield(r, <<ImageResult(path)>>)
             /\ Goto(r, "yielded")
          \/ /\ disk' \in {disk, [disk EXCEPT ![path] = TruncatedBy(r)]}
             /\ Goto(r, "raised")
             /\ UNCHANGED results
    /\ loop' = 0
    /\ UNCHANGED <<http, rendered, sent>>

\* The framework takes the yielded image result and, at a later turn of the
\* event loop, reads the file at its path to send it; the generator then ends.
framework_sends(r) ==
    /\ Resumable(r, WeatherQueries, "yielded")
    /\ HandlerStep
    /\ sent' = [sent EXCEPT ![r] = disk[PathOf(ev[r].handler)]]
    /\ Goto(r, "done")
    /\ UNCHANGED <<results, http, rendered, disk, loop>>

Requests == {1, 2}

NextHandlers ==
    \E r \in Requests :
        \/ Denied(r)
        \/ on_message_start(r)
        \/ on_message_parsed(r)
        \/ weather_help(r)
        \/ query_start(r)
        \/ query_searched(r)
        \/ query_fetched(r)
        \/ render_returns(r)
        \/ framework_sends(r)

InitHandlers == GradIdle /\ RenderIdle /\ InitHandlersWith({1}, Configs)

SpecHandlers == InitHandlers /\ [][NextHandlers]_vars

\* Two settings, the same for both prefixes: the defaults, and private chats
\* turned off.
ConcurrentConfigs ==
    { [p \in Prefixes |-> c] :
          c \in {DefaultConfig, [DefaultConfig EXCEPT !.enable_in_private = FALSE]} }

InitConcurrent == GradIdle /\ RenderIdle /\ InitHandlersWith(Requests, ConcurrentConfigs)

SpecConcurrent == InitConcurrent /\ [][NextHandlers]_vars

(***************************************************************************)
(* Properties of the handlers                                              *)
(***************************************************************************)
Ended(r) == hpc[r] \in {"done", "raised"}

\* C2 as stated (SpecConcurrent): the file the framework reads for a
\* request's yielded image result holds the card rendered from that
\* request's own data.
SentCardIsOwnCard ==
    \A r \in reqs : sent[r] # NoCard => sent[r] = CardBy(r)

\* C3 as stated (SpecHandlers): every weather query that passes the
\* whitelist ends with exactly one reply and never with an exception raised
\* out of the handler.
WeatherQueryEndsWithOneReply ==
    \A r \in reqs :
        (ev[r].handler \in WeatherQueries /\ http[r] > 0 /\ Ended(r)) =>
            /\ hpc[r] = "done"
            /\ Len(results[r]) = 1

StepOf(q) ==
    \/ Denied(q)
    \/ on_message_start(q)
    \/ on_message_parsed(q)
    \/ weather_help(q)
    \/ query_start(q)
    \/ query_searched(q)
    \/ query_fetched(q)
    \/ framework_sends(q)

\* C7 as stated (SpecConcurrent): while one request's render is in progress
\* the event loop can still take a step for another chat event whose handler
\* has not ended.
LoopFreeDuringRender ==
    \A r \in reqs : \A q \in reqs :
        (hpc[r] = "rendering" /\ q # r /\ ~Ended(q)) => ENABLED StepOf(q)

IdDenied(e, cfg) ==
    /\ cfg.enable_id_whitelist
    /\ cfg.id_whitelist # {}
    /\ e.umo \notin cfg.id_whitelist

GroupOrPrivateDenied(e, cfg) ==
    \/ /\ e.group_id # NoGroup
       /\ cfg.group_whitelist # {}
       /\ \A g \in cfg.group_whitelist : g.v # e.group_id.v
    \/ /\ e.group_id = NoGroup
       /\ ~cfg.enable_in_private

\* C10 (SpecHandlers): in every handler, an event the whitelist denies makes
\* no HTTP request, renders no card and yields nothing but the configured
\* whitelist reply; the reply is yielded once, and only for a denial by the
\* ID whitelist (enabled, non-empty, sender not listed) with a non-empty
\* reply; a group-whitelist or private-chat denial is silent, also for a
\* sender the ID whitelist lists; an event that is not denied gets past the
\* gate.
WhitelistGating ==
    \A r \in reqs :
        LET e == ev[r]
            cfg == config[IF e.handler = "on_message" THEN "" ELSE "weather_"]
            quiet == http[r] = 0 /\ rendered[r] = 0 /\ sent[r] = NoCard
        IN /\ hpc[r] = "start" => (quiet /\ results[r] = <<>>)
           /\ (hpc[r] # "start" /\ IdDenied(e, cfg)) =>
                  /\ hpc[r] = "done"
                  /\ quiet
                  /\ results[r] = IF cfg.whitelist_reply # ""
                                  THEN <<[kind |-> "plain", text |-> cfg.whitelist_reply]>>
                                  ELSE <<>>
           /\ (hpc[r] # "start" /\ ~IdDenied(e, cfg) /\ GroupOrPrivateDenied(e, cfg)) =>
                  /\ hpc[r] = "done"
                  /\ quiet
                  /\ results[r] = <<>>
           /\ (Ended(r) /\ ~IdDenied(e, cfg) /\ ~GroupOrPrivateDenied(e, cfg)) =>
                  \/ e.handler = "on_message" /\ ~e.has_link /\ results[r] = <<>>
                  \/ http[r] > 0
                  \/ results[r] = <<[kind |-> "plain", text |-> "help"]>>

\* A weather query from a sender the ID whitelist lists, in a group the
\* group whitelist does not list: ended silently, nothing requested.
ListedSenderStoppedByGroupWhitelist ==
    \E r \in reqs :
        /\ ev[r].handler = "query_weather_now"
        /\ config["weather_"].enable_id_whitelist
        /\ ev[r].umo \in config["weather_"].id_whitelist
        /\ config["weather_"].whitelist_reply # ""
        /\ ev[r].group_id = GroupStr(2)
        /\ config["weather_"].group_whitelist = {GroupInt(1)}
        /\ hpc[r] = "done"
        /\ results[r] = <<>>
        /\ http[r] = 0

====
